---- MODULE Spec2Model ----
(***************************************************************************)
(* Model of src/api/app.py: the prediction API.                            *)
(*                                                                         *)
(* State: the three module globals (model, scaler, metadata), the position *)
(* of the startup handler inside load_model_components, the thread pool    *)
(* (work queue, running work items, max_workers), and for every predict    *)
(* call its position, its await-ed future and its HTTP response.           *)
(*                                                                         *)
(* Strings that the code sorts or converts (class labels) are sequences of *)
(* character codes, so that sorted() and int() are computed, not assumed.  *)
(* Probabilities are tenths (7 stands for 0.7).                            *)
(***************************************************************************)
EXTENDS Integers, Sequences, FiniteSets, TLC

VARIABLES
    disk,         \* the files of the model directory (never written)
    input,        \* the records the clients send, in order of arrival
    model,        \* global model
    scaler,       \* global scaler
    metadata,     \* global metadata
    load_pc,      \* position of startup_event / load_model_components
    success,      \* return value of load_model_components
    max_workers,  \* executor._max_workers
    work_queue,   \* executor._work_queue
    running,      \* work items being executed by a worker thread
    pc,           \* position of each predict call
    future,       \* the future each predict call awaits
    resp,         \* the HTTP response of each predict call
    health        \* the last response of health_check

vars == <<disk, input, model, scaler, metadata, load_pc, success, max_workers,
          work_queue, running, pc, future, resp, health>>

(***************************************************************************)
(* Bounds of the model.                                                    *)
(***************************************************************************)
NumFields == 2      \* fields of PredictionInput (36 in the source)
MaxCalls == 2       \* predict calls in the general specification
PoolCalls == 5      \* predict calls in the pool specification
SerialCalls == 3    \* predict calls in the pool-of-one specification

\* ThreadPoolExecutor(max_workers=4)
executor_max_workers == 4

None == [kind |-> "None"]

(***************************************************************************)
(* Python strings, as sequences of character codes.                        *)
(***************************************************************************)
s1 == <<49>>
s2 == <<50>>
s3 == <<51>>
s9 == <<57>>
s10 == <<49, 48>>
sA == <<65>>
sB == <<66>>

\* str.__lt__: lexicographic by code point, a proper prefix is smaller
RECURSIVE StrLess(_, _)
StrLess(a, b) ==
    IF a = <<>> THEN b # <<>>
    ELSE IF b = <<>> THEN FALSE
    ELSE IF Head(a) # Head(b) THEN Head(a) < Head(b)
    ELSE StrLess(Tail(a), Tail(b))

\* sorted(class_mapping.keys())
RECURSIVE sorted(_)
sorted(S) ==
    IF S = {} THEN <<>>
    ELSE LET m == CHOOSE x \in S : \A y \in S \ {x} : StrLess(x, y)
         IN  <<m>> \o sorted(S \ {m})

IsDigits(s) == Len(s) > 0 /\ \A i \in 1..Len(s) : s[i] \in 48..57

\* int(original_prediction) for a string of decimal digits
RECURSIVE int(_)
int(s) == IF s = <<>> THEN 0
          ELSE 10 * int(SubSeq(s, 1, Len(s) - 1)) + (s[Len(s)] - 48)

\* max(prediction_proba)
RECURSIVE max(_)
max(p) == IF Len(p) = 1 THEN p[1]
          ELSE LET m == max(Tail(p)) IN IF p[1] >= m THEN p[1] ELSE m

\* numpy argmax: the first index holding the maximum (0-based)
argmax(p) == (CHOOSE i \in 1..Len(p) :
                 /\ p[i] = max(p)
                 /\ \A j \in 1..(i - 1) : p[j] < p[i]) - 1

(***************************************************************************)
(* The artifacts that may lie in the model directory.                      *)
(***************************************************************************)
Fields == 1..NumFields
\* a validated PredictionInput: every field holds a number
RecordOf(a, b) == [f \in Fields |-> IF f = 1 THEN a ELSE b]
Records == { RecordOf(0, 0), RecordOf(3, 0), RecordOf(0, 3) }

Missing == [kind |-> "missing"]

\* a trained classifier: a stump over the first scaled feature
Classifier(k, l, r) ==
    [kind |-> "XGBClassifier", n_features |-> NumFields, n_classes |-> k,
     threshold |-> 0, left |-> l, right |-> r]

Classifiers == { Classifier(2, <<5, 5>>, <<3, 7>>),
                 Classifier(3, <<2, 3, 5>>, <<5, 3, 2>>) }

Scalers == { [kind |-> "StandardScaler", n_features_in_ |-> NumFields,
              mean_ |-> [i \in Fields |-> 1], scale_ |-> [i \in Fields |-> 2]] }

\* the class_mapping entry of the metadata: an embedded JSON document
Doc(ms) == [valid |-> TRUE, members |-> ms]
BadDoc == [valid |-> FALSE, members |-> <<>>]

ClassMappingDocs ==
    { Doc(<< <<s1, 0>>, <<s2, 1>> >>),
      Doc(<< <<s1, 0>>, <<s2, 1>>, <<s3, 2>> >>),
      Doc(<< <<s1, 1>>, <<s2, 0>> >>),
      Doc(<< <<s9, 0>>, <<s10, 1>> >>),
      Doc(<< <<sA, 0>>, <<sB, 1>> >>),
      Doc(<< <<s1, 0>>, <<s2, 2>> >>),
      Doc(<< <<s1, 0>>, <<s2, 0>> >>),
      BadDoc }

FeatureNamesOk == [i \in Fields |-> i]
FeatureNamesRev == [i \in Fields |-> NumFields + 1 - i]
FeatureNamesUnknown == [i \in Fields |-> i + 1]
FeatureNamesShort == [i \in 1..(NumFields - 1) |-> i]

Meta(fn, cm) == [kind |-> "dict", feature_names |-> fn, class_mapping |-> cm]

Metadatas ==
    { Meta(FeatureNamesOk, cm) : cm \in ClassMappingDocs }
    \cup { Meta(fn, Doc(<< <<s1, 0>>, <<s2, 1>> >>)) :
             fn \in {FeatureNamesRev, FeatureNamesUnknown, FeatureNamesShort} }

Disk(m, s, md) == [xgboost_model |-> m, scaler |-> s, model_metadata |-> md]

\* a json file holding null loads as None
Disks ==
    { Disk(m, s, md) : m \in Classifiers, s \in Scalers,
                       md \in Metadatas \cup {Missing, None} }
    \cup { Disk(Missing, s, md) : s \in Scalers \cup {Missing},
                                  md \in {Meta(FeatureNamesOk, Doc(<< <<s1, 0>>, <<s2, 1>> >>)), Missing} }
    \cup { Disk(m, Missing, md) : m \in Classifiers,
                                  md \in {Meta(FeatureNamesOk, Doc(<< <<s1, 0>>, <<s2, 1>> >>)), Missing} }

\* the bundles whose three artifacts agree with each other
GoodDisks ==
    { Disk(m, s, Meta(fn, Doc(<< <<s1, 0>>, <<s2, 1>> >>))) :
        m \in { c \in Classifiers : c.n_classes = 2 }, s \in Scalers,
        fn \in {FeatureNamesOk, FeatureNamesRev} }

(***************************************************************************)
(* evaluate_model                                                          *)
(***************************************************************************)
Exception(t) == [type |-> t]
Raise(e) == [ok |-> FALSE, exc |-> e]
Return(v) == [ok |-> TRUE, value |-> v]

HTTPException(code, text) ==
    [type |-> "HTTPException", status_code |-> code, detail |-> text]

\* str(e): an HTTPException prints as "<status_code>: <detail>"
str(e) == IF e.type = "HTTPException"
          THEN <<ToString(e.status_code), ": ">> \o e.detail
          ELSE <<e.type>>

\* json.loads of an object: a dict, in insertion order
json_loads(doc) ==
    LET ms == doc.members
        ks == { ms[i][1] : i \in 1..Len(ms) }
        last(k) == CHOOSE i \in 1..Len(ms) :
                     /\ ms[i][1] = k
                     /\ \A j \in (i + 1)..Len(ms) : ms[j][1] # k
    IN  [keys |-> ks, items |-> [k \in ks |-> ms[last(k)][2]],
         order |-> ms]

\* {v: k for k, v in class_mapping.items()}: the last key of a value wins
reverse_mapping(cm) ==
    LET vs == { cm.items[k] : k \in cm.keys }
        pos(k) == CHOOSE i \in 1..Len(cm.order) :
                     /\ cm.order[i][1] = k
                     /\ \A j \in 1..(i - 1) : cm.order[j][1] # k
        lastkey(v) == CHOOSE k \in cm.keys :
                        /\ cm.items[k] = v
                        /\ \A k2 \in cm.keys :
                             cm.items[k2] = v => pos(k2) <= pos(k)
    IN  [v \in vs |-> lastkey(v)]

\* scaler.transform: (x - mean) / scale, kept as the pair <<x - mean, scale>>
transform(sc, X) == [i \in 1..Len(X) |-> <<X[i] - sc.mean_[i], sc.scale_[i]>>]

\* model.predict_proba: one probability per encoded class index
predict_proba(mdl, Xs) ==
    IF Xs[1][1] <= mdl.threshold * Xs[1][2] THEN mdl.left ELSE mdl.right

\* model.predict: the encoded index of the largest probability
predict(mdl, Xs) == argmax(predict_proba(mdl, Xs))

\* class_labels[i] paired with prediction_proba[i]
proba_dict(class_labels, prediction_proba) ==
    [k \in { class_labels[i] : i \in 1..Len(class_labels) } |->
        prediction_proba[CHOOSE i \in 1..Len(class_labels) : class_labels[i] = k]]

\* float(max(prediction_proba))
confidence(prediction_proba) == max(prediction_proba)

evaluate_body(md, sc, mdl, data) ==
    LET feature_names == md.feature_names
        X_sample == [i \in 1..Len(feature_names) |-> data[feature_names[i]]]
        X_sample_scaled == transform(sc, X_sample)
        prediction == predict(mdl, X_sample_scaled)
        prediction_proba == predict_proba(mdl, X_sample_scaled)
        class_mapping == json_loads(md.class_mapping)
        reverse == reverse_mapping(class_mapping)
        original_prediction == reverse[prediction]
        class_labels == sorted(class_mapping.keys)
    IN  IF md = None THEN Raise(Exception("TypeError"))
        ELSE IF \E i \in 1..Len(feature_names) : feature_names[i] \notin DOMAIN data
        THEN Raise(Exception("KeyError"))
        ELSE IF sc = None THEN Raise(Exception("AttributeError"))
        ELSE IF Len(X_sample) # sc.n_features_in_ THEN Raise(Exception("ValueError"))
        ELSE IF mdl = None THEN Raise(Exception("AttributeError"))
        ELSE IF Len(X_sample_scaled) # mdl.n_features THEN Raise(Exception("ValueError"))
        ELSE IF ~md.class_mapping.valid THEN Raise(Exception("JSONDecodeError"))
        ELSE IF prediction \notin DOMAIN reverse THEN Raise(Exception("KeyError"))
        ELSE IF Len(class_labels) > Len(prediction_proba) THEN Raise(Exception("IndexError"))
        ELSE IF ~IsDigits(original_prediction) THEN Raise(Exception("ValueError"))
        ELSE Return([predicted_class |-> int(original_prediction),
                     prediction_probabilities |->
                         proba_dict(class_labels, prediction_proba),
                     confidence |-> confidence(prediction_proba)])

\* evaluate_model without its try/except
evaluate_model_unguarded(md, sc, mdl, data) == evaluate_body(md, sc, mdl, data)

\* the try/except of evaluate_model: every exception becomes an HTTPException
evaluate_model(md, sc, mdl, data) ==
    LET r == evaluate_body(md, sc, mdl, data)
    IN  IF r.ok THEN r
        ELSE Raise(HTTPException(500, <<"Error during prediction: ">> \o str(r.exc)))

(***************************************************************************)
(* Initial states: nothing loaded, no call made, an idle pool.             *)
(* The handlers are not ordered after the startup handler: a call may be   *)
(* served before, between and after the steps of the load, which covers a  *)
(* host that serves requests while or without running startup_event.       *)
(***************************************************************************)
InitWith(D, R, n, w) ==
    /\ disk \in D
    /\ input \in [1..n -> R]
    /\ model = None
    /\ scaler = None
    /\ metadata = None
    /\ load_pc = "model"
    /\ success = "unset"
    /\ max_workers = w
    /\ work_queue = <<>>
    /\ running = {}
    /\ pc = [r \in 1..n |-> "new"]
    /\ future = [r \in 1..n |-> [state |-> "PENDING"]]
    /\ resp = [r \in 1..n |-> [status |-> 0]]
    /\ health = "none"

Init == InitWith(Disks, Records, MaxCalls, executor_max_workers)

Calls == DOMAIN input

(***************************************************************************)
(* startup_event / load_model_components, one step per assignment.         *)
(***************************************************************************)
LoadModel ==
    /\ load_pc = "model"
    /\ IF disk.xgboost_model = Missing
       THEN /\ load_pc' = "return"
            /\ success' = "False"
            /\ model' = model
       ELSE /\ model' = disk.xgboost_model
            /\ load_pc' = "scaler"
            /\ success' = success
    /\ UNCHANGED <<disk, input, scaler, metadata, max_workers, work_queue,
                   running, pc, future, resp, health>>

\* a scaler load whose failure is swallowed
LoadScalerSwallowing ==
    /\ load_pc = "scaler"
    /\ scaler' = IF disk.scaler = Missing THEN scaler ELSE disk.scaler
    /\ load_pc' = "metadata"
    /\ UNCHANGED <<disk, input, model, metadata, success, max_workers, work_queue,
                   running, pc, future, resp, health>>

LoadScaler ==
    /\ load_pc = "scaler"
    /\ IF disk.scaler = Missing
       THEN /\ load_pc' = "return"
            /\ success' = "False"
            /\ scaler' = scaler
       ELSE /\ scaler' = disk.scaler
            /\ load_pc' = "metadata"
            /\ success' = success
    /\ UNCHANGED <<disk, input, model, metadata, max_workers, work_queue,
                   running, pc, future, resp, health>>

LoadMetadata ==
    /\ load_pc = "metadata"
    /\ IF disk.model_metadata = Missing
       THEN /\ success' = "False"
            /\ metadata' = metadata
       ELSE /\ metadata' = disk.model_metadata
            /\ success' = "True"
    /\ load_pc' = "return"
    /\ UNCHANGED <<disk, input, model, scaler, max_workers, work_queue,
                   running, pc, future, resp, health>>

\* a startup handler that drops the classifier once it has logged
startup_event_releasing ==
    /\ load_pc = "return"
    /\ load_pc' = "complete"
    /\ model' = None
    /\ UNCHANGED <<disk, input, scaler, metadata, success, max_workers,
                   work_queue, running, pc, future, resp, health>>

\* load_model_components has returned; startup_event prints and completes
startup_event ==
    /\ load_pc = "return"
    /\ load_pc' = "complete"
    /\ UNCHANGED <<disk, input, model, scaler, metadata, success, max_workers,
                   work_queue, running, pc, future, resp, health>>

(***************************************************************************)
(* health_check                                                            *)
(***************************************************************************)
\* a health check that looks at the classifier alone
health_not_loaded_model_only == model = None

\* model is None or scaler is None or metadata is None
health_not_loaded == model = None \/ scaler = None \/ metadata = None

health_check ==
    /\ health' = IF health_not_loaded THEN "unhealthy" ELSE "healthy"
    /\ UNCHANGED <<disk, input, model, scaler, metadata, load_pc, success,
                   max_workers, work_queue, running, pc, future, resp>>

(***************************************************************************)
(* predict: the readiness gate and the hand-off to the executor            *)
(***************************************************************************)
\* a gate that looks at the classifier alone
predict_not_loaded_model_only == model = None

\* a gate that forgets the metadata
predict_not_loaded_no_metadata == model = None \/ scaler = None

predict_not_loaded == model = None \/ scaler = None \/ metadata = None

NotLoadedResponse ==
    [status |-> 503,
     detail |-> <<"Model components not loaded. Please check server logs.">>]

\* a hand-off through one shared slot: the worker reads the first call's record
WorkItemShared(r) == [fut |-> r, args |-> input[1]]

\* loop.run_in_executor(executor, evaluate_model, input_data)
WorkItem(r) == [fut |-> r, args |-> input[r]]

Predict(r) ==
    /\ pc[r] = "new"
    /\ \A q \in 1..(r - 1) : pc[q] # "new"
    /\ IF predict_not_loaded
       THEN /\ resp' = [resp EXCEPT ![r] = NotLoadedResponse]
            /\ pc' = [pc EXCEPT ![r] = "done"]
            /\ work_queue' = work_queue
       ELSE /\ work_queue' = Append(work_queue, WorkItem(r))
            /\ pc' = [pc EXCEPT ![r] = "awaiting"]
            /\ resp' = resp
    /\ UNCHANGED <<disk, input, model, scaler, metadata, load_pc, success,
                   max_workers, running, future, health>>

(***************************************************************************)
(* ThreadPoolExecutor: at most max_workers threads take items off the      *)
(* queue; each runs its item and sets the item's future.                   *)
(***************************************************************************)
\* a pool that starts a thread for every queued item
WorkerFreeUnbounded == TRUE

WorkerFree == Cardinality(running) < max_workers

WorkerStart ==
    /\ work_queue # <<>>
    /\ WorkerFree
    /\ running' = running \cup {Head(work_queue)}
    /\ work_queue' = Tail(work_queue)
    /\ UNCHANGED <<disk, input, model, scaler, metadata, load_pc, success,
                   max_workers, pc, future, resp, health>>

WorkerRun(item) ==
    /\ item \in running
    /\ future' = [future EXCEPT ![item.fut] =
                     [state |-> "FINISHED",
                      outcome |-> evaluate_model(metadata, scaler, model, item.args)]]
    /\ running' = running \ {item}
    /\ UNCHANGED <<disk, input, model, scaler, metadata, load_pc, success,
                   max_workers, work_queue, pc, resp, health>>

\* predict after the await: PredictionOutput(**result), or the except clause
PredictResponse(outcome) ==
    IF outcome.ok
    THEN [status |-> 200, body |-> outcome.value]
    ELSE [status |-> 500,
          detail |-> <<"Prediction failed: ">> \o str(outcome.exc)]

PredictResume(r) ==
    /\ pc[r] = "awaiting"
    /\ future[r].state = "FINISHED"
    /\ resp' = [resp EXCEPT ![r] = PredictResponse(future[r].outcome)]
    /\ pc' = [pc EXCEPT ![r] = "done"]
    /\ UNCHANGED <<disk, input, model, scaler, metadata, load_pc, success,
                   max_workers, work_queue, running, future, health>>

Next ==
    \/ LoadModel
    \/ LoadScaler
    \/ LoadMetadata
    \/ startup_event
    \/ health_check
    \/ \E r \in Calls : Predict(r)
    \/ WorkerStart
    \/ \E item \in running : WorkerRun(item)
    \/ \E r \in Calls : PredictResume(r)

Spec == Init /\ [][Next]_vars

\* four workers, more calls than workers, a consistent bundle
InitPool == InitWith(GoodDisks, {RecordOf(3, 0)}, PoolCalls, executor_max_workers)
SpecPool == InitPool /\ [][Next]_vars

\* a pool of one worker; the event loop and the worker thread keep running:
\* whenever a handler or a worker can take a step, some step is taken
InitSerial == InitWith(GoodDisks, {RecordOf(3, 0), RecordOf(0, 3)}, SerialCalls, 1)
SpecSerial == InitSerial /\ [][Next]_vars /\ WF_vars(Next)

(***************************************************************************)
(* Properties                                                              *)
(***************************************************************************)
Loaded == model # None /\ scaler # None /\ metadata # None

\* call r has a work item in the pool
InPool(r) ==
    \/ \E i \in 1..Len(work_queue) : work_queue[i].fut = r
    \/ \E item \in running : item.fut = r

\* call r leaves the readiness gate in this step
Gate(r) == pc[r] = "new" /\ pc'[r] # "new"

\* C1: a predict call made while model, scaler or metadata is still None is
\* answered 503 and hands nothing to the executor: no work item of the call is
\* queued or run, then or later, and its future is never set.
C1_NotReadyRejected ==
    [][\A r \in Calls :
          /\ (Gate(r) /\ ~Loaded) =>
                /\ resp'[r] = NotLoadedResponse
                /\ pc'[r] = "done"
                /\ work_queue' = work_queue
                /\ running' = running
          /\ (resp[r].status = 503) =>
                /\ ~InPool(r)'
                /\ future'[r].state = "PENDING"
                /\ resp'[r] = resp[r]]_vars

C1_Witness ==
    \E r \in Calls :
        /\ resp[r].status = 503
        /\ model # None
        /\ scaler = None
        /\ \E q \in Calls : q > r /\ pc[q] = "done" /\ resp[q].status = 503

\* C2: when load_model_components fails at any of its three steps it returns
\* False (it does not raise), the startup handler can complete, and the service
\* stays not ready: health_check never answers healthy and every predict call
\* is answered 503.
C2_FailedLoadStaysNotReady ==
    [][(success' = "False") =>
          /\ load_pc' \in {"return", "complete"}
          /\ ~Loaded'
          /\ health' # "healthy"
          /\ \A r \in Calls : Gate(r) => resp'[r] = NotLoadedResponse
          /\ \A r \in Calls : resp'[r].status \in {0, 503}]_vars

C2_Witness ==
    /\ success = "False"
    /\ load_pc = "complete"
    /\ model # None
    /\ scaler # None
    /\ metadata = None
    /\ health = "unhealthy"
    /\ \A r \in Calls : resp[r].status = 503

\* C3: a reader that sees the service ready sees all three components loaded,
\* each the complete artifact of its file: health_check answers healthy, predict
\* passes its gate, and evaluate_model runs on a worker, only with model, scaler
\* and metadata all set; no evaluation ever meets a component that is None.
C3_ReadyMeansAllLoaded ==
    LET Complete == /\ Loaded
                    /\ model = disk.xgboost_model
                    /\ scaler = disk.scaler
                    /\ metadata = disk.model_metadata
    IN  /\ health = "healthy" => Complete
        /\ \A r \in Calls :
              /\ (pc[r] = "awaiting" \/ InPool(r)) => Complete
              /\ resp[r].status \in {200, 500} => Complete
              /\ future[r].state = "FINISHED" =>
                    /\ Complete
                    /\ future[r].outcome.ok \/
                         future[r].outcome.exc.detail[2]
                             \notin {"TypeError", "AttributeError"}

C3_Witness ==
    /\ load_pc = "return"
    /\ health = "healthy"
    /\ \E r, q \in Calls :
          /\ resp[r].status = 503
          /\ future[q].state = "FINISHED"

\* C4: at most 4 executions of evaluate_model are in progress in any state, and
\* a predict call that arrives while all 4 workers are busy is put on the pool's
\* queue and starts no further execution.
C4_PoolBounded ==
    [][/\ Cardinality(running') <= executor_max_workers
       /\ \A r \in Calls :
             (Gate(r) /\ Loaded /\ Cardinality(running) = executor_max_workers) =>
                /\ running' = running
                /\ work_queue' = Append(work_queue, [fut |-> r, args |-> input[r]])]_vars

C4_Witness ==
    /\ Cardinality(running) = executor_max_workers
    /\ work_queue # <<>>
    /\ \A i \in 1..Len(work_queue) : pc[work_queue[i].fut] = "awaiting"

\* the result evaluate_model computes from the record of call r
OwnResult(r) ==
    evaluate_body(disk.model_metadata, disk.scaler, disk.xgboost_model, input[r]).value

\* C5: with a pool of one worker and a consistent bundle, every predict call
\* is eventually answered, and every call made on the ready service (one that
\* passed the gate) is answered 200 with the result computed from its own
\* record.
C5_EachCallGetsOwnResult ==
    /\ <>[](\A r \in 1..SerialCalls : pc[r] = "done")
    /\ [](\A r \in 1..SerialCalls :
             (pc[r] = "done" /\ resp[r] # NotLoadedResponse) =>
                resp[r] = [status |-> 200, body |-> OwnResult(r)])

C5_Witness ==
    /\ max_workers = 1
    /\ \A r \in Calls : pc[r] = "done" /\ resp[r].status = 200
    /\ \E r, q \in Calls : resp[r].body # resp[q].body

\* the decoded class_mapping of the loaded metadata
LoadedMapping == json_loads(metadata.class_mapping)

\* class_mapping is a bijection from its labels onto 0..K-1, K the number of
\* classes of the classifier
IsBijection ==
    /\ metadata.class_mapping.valid
    /\ Len(metadata.class_mapping.members) = model.n_classes
    /\ Cardinality(LoadedMapping.keys) = model.n_classes
    /\ { LoadedMapping.items[k] : k \in LoadedMapping.keys } = 0..(model.n_classes - 1)

\* the key of the returned mapping that holds the largest value; among equal
\* values the label of the smallest encoded index
MaxKey(probs) ==
    CHOOSE k \in DOMAIN probs :
        \A j \in DOMAIN probs \ {k} :
            \/ probs[j] < probs[k]
            \/ probs[j] = probs[k] /\ LoadedMapping.items[k] < LoadedMapping.items[j]

\* C6: for every successful predict over a bundle whose class_mapping is a
\* bijection onto 0..K-1, predicted_class is the key of the returned
\* probability mapping that holds the maximum value (on ties, the label of the
\* first encoded index that achieves it).
C6_PredictedClassIsMaxKey ==
    \A r \in Calls :
        (resp[r].status = 200 /\ IsBijection) =>
            resp[r].body.predicted_class =
                int(MaxKey(resp[r].body.prediction_probabilities))

\* the largest value of the returned probability mapping
MaxValue(probs) ==
    CHOOSE v \in { probs[k] : k \in DOMAIN probs } :
        \A k \in DOMAIN probs : probs[k] <= v

\* C7: for every successful predict, confidence is the maximum value of the
\* returned probability mapping, for any classifier probability vector and any
\* class_mapping that was loaded.
C7_ConfidenceIsMaxOfMapping ==
    \A r \in Calls :
        resp[r].status = 200 =>
            resp[r].body.confidence = MaxValue(resp[r].body.prediction_probabilities)

\* the exceptions the steps of evaluate_model raise
PipelineErrors ==
    {"TypeError", "KeyError", "AttributeError", "ValueError", "JSONDecodeError",
     "IndexError"}

\* C8: an exception raised inside evaluate_model on a worker reaches the future
\* as an HTTPException 500 naming the cause, predict answers the call with 500
\* and a detail that carries that cause, the three components stay loaded, and
\* a call that arrives after a failed one is still accepted by the gate.
C8_FailureBecomesPredictionError ==
    [][\A r \in Calls :
          /\ (future'[r].state = "FINISHED" /\ ~future'[r].outcome.ok) =>
                /\ future'[r].outcome.exc.type = "HTTPException"
                /\ future'[r].outcome.exc.status_code = 500
                /\ Len(future'[r].outcome.exc.detail) = 2
                /\ future'[r].outcome.exc.detail[1] = "Error during prediction: "
                /\ future'[r].outcome.exc.detail[2] \in PipelineErrors
                /\ Loaded'
          /\ (pc[r] = "awaiting" /\ pc'[r] = "done" /\ ~future[r].outcome.ok) =>
                /\ resp'[r].status = 500
                /\ resp'[r].detail =
                      <<"Prediction failed: ", "500", ": ">> \o future[r].outcome.exc.detail
          /\ (Gate(r) /\ \E q \in Calls : resp[q].status = 500) =>
                pc'[r] = "awaiting"]_vars

C8_Witness ==
    \E r, q \in Calls :
        /\ r < q
        /\ resp[r].status = 500
        /\ resp[r].detail[5] = "KeyError"
        /\ resp[q].status = 200
        /\ Loaded

\* the loaded bundle satisfies the cross-artifact invariants
Consistent ==
    /\ Len(metadata.feature_names) = scaler.n_features_in_
    /\ IsBijection

FilesOf(d) == {d.xgboost_model, d.scaler, d.model_metadata}

C10_ReadinessStable ==
    [][/\ Loaded => Loaded'
       /\ (model' # model \/ scaler' # scaler \/ metadata' # metadata) =>
             load_pc \in {"model", "scaler", "metadata"}
       /\ model # None => model' = model
       /\ scaler # None => scaler' = scaler
       /\ \A r \in Calls :
             /\ (pc[r] = "awaiting" \/ InPool(r)) => (Loaded /\ Loaded')
             /\ (future[r].state = "PENDING" /\ future'[r].state = "FINISHED") =>
                   (Loaded /\ Loaded')]_vars

C10_Witness ==
    /\ load_pc = "complete"
    /\ Loaded
    /\ \E r, q \in Calls :
          /\ resp[r].status = 200
          /\ q > r
          /\ \E item \in running : item.fut = q

====
